---- MODULE Spec2Model ----
(***************************************************************************)
(* Model of the budget manager (src/app.py): one PostgreSQL table          *)
(* "transactions", the two Streamlit caches (st.cache_resource for         *)
(* init_db, st.cache_data for get_all_transactions), the two data          *)
(* functions and the aggregation the script performs on every run.         *)
(*                                                                         *)
(* Amounts are integers in cents (st.number_input with format "%.2f").     *)
(* A calendar date is a day number; a pandas Timestamp is the number of    *)
(* seconds since day 0, so pd.to_datetime and .dt.date are real            *)
(* conversions.                                                            *)
(***************************************************************************)
EXTENDS Integers, Sequences, FiniteSets, TLC

VARIABLES tableExists, rows, nextId, resource_cache, data_cache,
          transactions_df, view, call

vars == <<tableExists, rows, nextId, resource_cache, data_cache,
          transactions_df, view, call>>

(* ---------------------------- bounds ----------------------------------- *)
MaxRows == 2

(* ------------------------ program constants ---------------------------- *)
SecondsPerDay == 86400
MinAmount == 1

(* ------------------------------ inputs --------------------------------- *)
Dates == {1, 2}
SampleCategories == {"Salary", "Food", "Transport"}
SampleAmounts == {500, 2000}
SampleDescriptions == {"", "note"}

\* options of the "Type" selectbox
type_options == {"Income", "Expense"}

\* the category list the form offers for the selected type
categories(type_input) ==
    IF type_input = "Income"
    THEN {"Salary", "Gift", "Part-Time", "Bonus investment", "Other"}
    ELSE {"Food", "Investment", "Utilities", "Entertainment", "Transport",
          "shopping", "Other"}

Args(d, t, c, a, s) ==
    [date |-> d, type |-> t, category |-> c, amount |-> a, description |-> s]

\* what the widgets of transaction_form can hand to add_transaction
FormInputs ==
    { Args(d, t, c, a, s) :
        d \in Dates, t \in type_options, c \in SampleCategories,
        a \in {x \in SampleAmounts : x >= MinAmount}, s \in SampleDescriptions }
    \cap
    { x \in [date : Dates, type : type_options, category : SampleCategories,
             amount : SampleAmounts, description : SampleDescriptions] :
        x.category \in categories(x.type) }

\* arguments a direct caller of add_transaction can pass and the widgets cannot
ProbeInputs ==
    { Args(1, "Income", "Salary", 0, ""),
      Args(1, "Income", "Salary", 0 - 500, ""),
      Args(1, "Transfer", "Food", 500, ""),
      Args(2, "Income", "Food", 2000, "") }

CallInputs == FormInputs \cup ProbeInputs

(* --------------------------- pure helpers ------------------------------ *)
\* pd.to_datetime on a DATE value: midnight of that day
to_datetime(d) == d * SecondsPerDay

\* Series.dt.date: the calendar date of a Timestamp
dt_date(ts) == ts \div SecondsPerDay

RECURSIVE SeqSum(_)
\* Series.sum(): 0 on the empty series
SeqSum(s) == IF s = <<>> THEN 0 ELSE Head(s) + SeqSum(Tail(s))

Column(df, name) == [i \in 1..Len(df) |-> df[i][name]]

\* the record a SELECT of the five columns produces for a stored row
SelectColumns(r) ==
    [date |-> r.date, type |-> r.type, category |-> r.category,
     amount |-> r.amount, description |-> r.description]

Perms(n) == { p \in [1..n -> 1..n] : \A i, j \in 1..n : i # j => p[i] # p[j] }

\* variant: the rows in insertion order, as without ORDER BY
conn_query_unordered(table) ==
    { [i \in 1..Len(table) |-> SelectColumns(table[i])] }

\* SELECT ... FROM transactions ORDER BY date DESC: every order of the rows
\* that is descending by date (the order of equal dates is left open by SQL)
conn_query(table) ==
    LET n == Len(table)
        ok(p) == \A i \in 1..n : i < n => table[p[i]].date >= table[p[i + 1]].date
    IN { [i \in 1..n |-> SelectColumns(table[p[i]])] : p \in {q \in Perms(n) : ok(q)} }

\* df['date'] = pd.to_datetime(df['date'])
convert_dates(df) == [i \in 1..Len(df) |-> [df[i] EXCEPT !.date = to_datetime(@)]]

(* ------------------------------ state ---------------------------------- *)
State ==
    [tableExists |-> tableExists, rows |-> rows, nextId |-> nextId,
     resource_cache |-> resource_cache, data_cache |-> data_cache]

Commit(s) ==
    /\ tableExists' = s.tableExists
    /\ rows' = s.rows
    /\ nextId' = s.nextId
    /\ resource_cache' = s.resource_cache
    /\ data_cache' = s.data_cache

NoView ==
    [branch |-> "none", total_income |-> {}, total_expenses |-> {},
     net_savings |-> {}, fig_pie |-> {}, expenses_by_day |-> {}]

Init ==
    /\ tableExists = FALSE
    /\ rows = <<>>
    /\ nextId = 1
    /\ resource_cache = {}
    /\ data_cache = {}
    /\ transactions_df = {}
    /\ view = NoView
    /\ call = [op |-> "start", args |-> {}, raised |-> ""]

(* --------------------------- the functions ----------------------------- *)
\* variant: the body creates the table anew even if it exists
init_db_recreate(s) ==
    IF "init_db" \in s.resource_cache
    THEN s
    ELSE [s EXCEPT !.tableExists = TRUE, !.rows = <<>>, !.nextId = 1,
                   !.resource_cache = @ \cup {"init_db"}]

\* init_db(), wrapped by st.cache_resource: the body runs once per process;
\* CREATE TABLE IF NOT EXISTS leaves an existing table and its id sequence alone
init_db(s) ==
    IF "init_db" \in s.resource_cache
    THEN s
    ELSE IF s.tableExists
         THEN [s EXCEPT !.resource_cache = @ \cup {"init_db"}]
         ELSE [s EXCEPT !.tableExists = TRUE, !.rows = <<>>, !.nextId = 1,
                        !.resource_cache = @ \cup {"init_db"}]

\* variant: st.cache_data.clear() left out
add_transaction_no_clear(s, a) ==
    [s EXCEPT !.rows = Append(@, [id |-> s.nextId, date |-> a.date, type |-> a.type,
                                  category |-> a.category, amount |-> a.amount,
                                  description |-> a.description]),
              !.nextId = @ + 1]

\* variant: the description is not passed to the INSERT
add_transaction_no_description(s, a) ==
    [s EXCEPT !.rows = Append(@, [id |-> s.nextId, date |-> a.date, type |-> a.type,
                                  category |-> a.category, amount |-> a.amount,
                                  description |-> ""]),
              !.nextId = @ + 1,
              !.data_cache = {}]

\* variant: the id is not taken from an advancing sequence
add_transaction_same_id(s, a) ==
    [s EXCEPT !.rows = Append(@, [id |-> s.nextId, date |-> a.date, type |-> a.type,
                                  category |-> a.category, amount |-> a.amount,
                                  description |-> a.description]),
              !.data_cache = {}]

\* add_transaction(date, type, category, amount, description): INSERT, commit,
\* st.cache_data.clear(); the id comes from the SERIAL sequence
add_transaction(s, a) ==
    [s EXCEPT !.rows = Append(@, [id |-> s.nextId, date |-> a.date, type |-> a.type,
                                  category |-> a.category, amount |-> a.amount,
                                  description |-> a.description]),
              !.nextId = @ + 1,
              !.data_cache = {}]

\* get_all_transactions(), wrapped by st.cache_data: the possible outcomes
\* [s |-> state after the call, df |-> the DataFrame returned]
get_all_transactions(s) ==
    IF s.data_cache # {}
    THEN { [s |-> s, df |-> v] : v \in s.data_cache }
    ELSE { [s |-> [s EXCEPT !.data_cache = {convert_dates(q)}], df |-> convert_dates(q)] :
             q \in conn_query(s.rows) }

(* ---------------------------- aggregation ------------------------------ *)
\* transactions_df[transactions_df["type"] == t]
filter_type(df, t) == LET keep(r) == r.type = t IN SelectSeq(df, keep)

\* variant: the sum taken without the type mask
total_all_types(df, t) == SeqSum(Column(df, "amount"))

\* transactions_df[transactions_df["type"] == t]["amount"].sum()
total(df, t) == SeqSum(Column(filter_type(df, t), "amount"))

RECURSIVE SortedSeq(_)
\* the group keys in ascending order (groupby sorts its keys)
SortedSeq(S) ==
    IF S = {} THEN <<>>
    ELSE LET m == CHOOSE x \in S : \A y \in S : x <= y
         IN <<m>> \o SortedSeq(S \ {m})

RECURSIVE SortedSeqDesc(_)
SortedSeqDesc(S) ==
    IF S = {} THEN <<>>
    ELSE LET m == CHOOSE x \in S : \A y \in S : x >= y
         IN <<m>> \o SortedSeqDesc(S \ {m})

\* variant: the groups in the order of the rows (date descending)
expenses_by_day_desc(expenses_df) ==
    LET keys == SortedSeqDesc({dt_date(expenses_df[i].date) : i \in 1..Len(expenses_df)})
        grp(k) == LET keep(r) == dt_date(r.date) = k IN SelectSeq(expenses_df, keep)
    IN [i \in 1..Len(keys) |->
          [date |-> keys[i], amount |-> SeqSum(Column(grp(keys[i]), "amount"))]]

\* expenses_df.groupby(expenses_df['date'].dt.date)['amount'].sum().reset_index()
expenses_by_day(expenses_df) ==
    LET keys == SortedSeq({dt_date(expenses_df[i].date) : i \in 1..Len(expenses_df)})
        grp(k) == LET keep(r) == dt_date(r.date) = k IN SelectSeq(expenses_df, keep)
    IN [i \in 1..Len(keys) |->
          [date |-> keys[i], amount |-> SeqSum(Column(grp(keys[i]), "amount"))]]

\* variant: values left out, so that the rows of each label are counted
fig_pie_count(expenses_df) ==
    LET grp(c) == LET keep(r) == r.category = c IN SelectSeq(expenses_df, keep)
    IN [c \in {expenses_df[i].category : i \in 1..Len(expenses_df)} |-> Len(grp(c))]

\* px.pie(expenses_df, names="category", values="amount"): one sector per
\* label, the values of equal labels summed
fig_pie(expenses_df) ==
    LET grp(c) == LET keep(r) == r.category = c IN SelectSeq(expenses_df, keep)
    IN [c \in {expenses_df[i].category : i \in 1..Len(expenses_df)} |->
          SeqSum(Column(grp(c), "amount"))]

\* variant: the transactions_df.empty test left out
summary_no_empty_test(df) ==
    LET total_income == total(df, "Income")
        total_expenses == total(df, "Expense")
        expenses_df == filter_type(df, "Expense")
        metrics == [NoView EXCEPT !.total_income = {total_income},
                                  !.total_expenses = {total_expenses},
                                  !.net_savings = {total_income - total_expenses}]
    IN IF expenses_df # <<>>
       THEN [metrics EXCEPT !.branch = "charts",
                            !.fig_pie = {fig_pie(expenses_df)},
                            !.expenses_by_day = {expenses_by_day(expenses_df)}]
       ELSE [metrics EXCEPT !.branch = "no_expenses"]

\* the summary part of the script, from the transactions_df.empty test on
summary(df) ==
    IF df = <<>>
    THEN [NoView EXCEPT !.branch = "no_transactions"]
    ELSE LET total_income == total(df, "Income")
             total_expenses == total(df, "Expense")
             expenses_df == filter_type(df, "Expense")
             metrics == [NoView EXCEPT !.total_income = {total_income},
                                       !.total_expenses = {total_expenses},
                                       !.net_savings = {total_income - total_expenses}]
         IN IF expenses_df # <<>>
            THEN [metrics EXCEPT !.branch = "charts",
                                 !.fig_pie = {fig_pie(expenses_df)},
                                 !.expenses_by_day = {expenses_by_day(expenses_df)}]
            ELSE [metrics EXCEPT !.branch = "no_expenses"]

(* ------------------------------ actions -------------------------------- *)
Loaded == "init_db" \in resource_cache

\* a call of init_db() (line 47 on its own)
InitDb ==
    /\ Commit(init_db(State))
    /\ transactions_df' = {}
    /\ view' = NoView
    /\ call' = [op |-> "init_db", args |-> {}, raised |-> ""]

\* a call of add_transaction with arbitrary arguments
AddTransaction ==
    /\ Loaded
    /\ Len(rows) < MaxRows
    /\ \E a \in CallInputs :
         /\ Commit(add_transaction(State, a))
         /\ call' = [op |-> "add_transaction", args |-> {a}, raised |-> ""]
    /\ transactions_df' = {}
    /\ view' = NoView

\* a call of get_all_transactions()
GetAllTransactions ==
    /\ Loaded
    /\ \E o \in get_all_transactions(State) :
         /\ Commit(o.s)
         /\ transactions_df' = {o.df}
    /\ view' = NoView
    /\ call' = [op |-> "get_all_transactions", args |-> {}, raised |-> ""]

\* one run of the script without a form submission
Rerun ==
    /\ \E o \in get_all_transactions(init_db(State)) :
         /\ Commit(o.s)
         /\ transactions_df' = {o.df}
         /\ view' = summary(o.df)
    /\ call' = [op |-> "rerun", args |-> {}, raised |-> ""]

\* one run of the script with transaction_form submitted
Submit ==
    /\ Len(rows) < MaxRows
    /\ \E a \in FormInputs :
         /\ \E o \in get_all_transactions(add_transaction(init_db(State), a)) :
              /\ Commit(o.s)
              /\ transactions_df' = {o.df}
              /\ view' = summary(o.df)
         /\ call' = [op |-> "submit", args |-> {a}, raised |-> ""]

\* the server process restarts: both caches are in memory, the table is not
Restart ==
    /\ resource_cache' = {}
    /\ data_cache' = {}
    /\ transactions_df' = {}
    /\ view' = NoView
    /\ call' = [op |-> "restart", args |-> {}, raised |-> ""]
    /\ UNCHANGED <<tableExists, rows, nextId>>

Next ==
    \/ InitDb
    \/ AddTransaction
    \/ GetAllTransactions
    \/ Rerun
    \/ Submit
    \/ Restart

Spec == Init /\ [][Next]_vars

(* ------------------- vocabulary of the properties ---------------------- *)
ReadOps == {"get_all_transactions", "rerun", "submit"}
RunOps == {"rerun", "submit"}

\* the record r of a DataFrame carries the five values of x
Matches(r, x) ==
    /\ dt_date(r.date) = x.date
    /\ r.type = x.type
    /\ r.category = x.category
    /\ r.amount = x.amount
    /\ r.description = x.description

\* how many records of df carry the five values of x
Occurrences(df, x) == Cardinality({j \in 1..Len(df) : Matches(df[j], x)})

\* how many rows of the table carry the five values of x
StoredOccurrences(table, x) ==
    Cardinality({j \in 1..Len(table) : SelectColumns(table[j]) = SelectColumns(x)})

\* df holds every row of the table and nothing else
SameRecords(df, table) ==
    /\ Len(df) = Len(table)
    /\ \A i \in 1..Len(table) :
         Occurrences(df, table[i]) = StoredOccurrences(table, table[i])

RECURSIVE SumIdx(_, _)
\* the sum of the amounts of the rows of the table with index in I
SumIdx(table, I) ==
    IF I = {} THEN 0
    ELSE LET i == CHOOSE j \in I : TRUE
         IN table[i].amount + SumIdx(table, I \ {i})

OfType(table, t) == {i \in 1..Len(table) : table[i].type = t}

InvalidArgs(a) == a.amount <= 0 \/ a.type \notin {"Income", "Expense"}

(* ------------------------------- C1 ------------------------------------ *)
\* C1: every call of add_transaction with amount <= 0 or with a type outside
\* {Income, Expense} is rejected with a validation error and writes no row.
C1_InvalidRejected ==
    [][\A a \in call'.args :
         (call'.op = "add_transaction" /\ InvalidArgs(a))
            => (call'.raised = "ValidationError" /\ rows' = rows)]_vars

(* ------------------------------- C2 ------------------------------------ *)
\* C2: cache coherence: the cached result of get_all_transactions never
\* predates a completed insert, so every read returns the rows the table
\* holds when the read is made.
C2_CacheCoherent ==
    /\ \A v \in data_cache : SameRecords(v, rows)
    /\ call.op \in ReadOps =>
         /\ transactions_df # {}
         /\ transactions_df = data_cache

\* a read served after two inserts
C2_Witness ==
    /\ call.op = "get_all_transactions"
    /\ Len(rows) = 2
    /\ transactions_df # {}

(* ------------------------------- C3 ------------------------------------ *)
\* C3: round trip: a form submission (insert, then immediately list_all)
\* returns a result that holds the inserted record exactly once: one record
\* more with the submitted date, type, category, amount and description
\* than the table held before, and one record more in all.
C3_RoundTrip ==
    [][call'.op = "submit" =>
         \A a \in call'.args : \A d \in transactions_df' :
            /\ transactions_df' # {}
            /\ Occurrences(d, a) = StoredOccurrences(rows, a) + 1
            /\ Len(d) = Len(rows) + 1]_vars

\* a submission with a description, on a table that already holds a row
C3_Witness ==
    /\ call.op = "submit"
    /\ Len(rows) = 2
    /\ \E a \in call.args : \E d \in transactions_df :
         a.description = "note" /\ Occurrences(d, a) = 1

(* ------------------------------- C4 ------------------------------------ *)
\* C4: the store is append-only: every step keeps every stored row with its
\* id and its values, and a row that is added gets an id no row had before.
C4_AppendOnly ==
    [][/\ Len(rows') >= Len(rows)
       /\ \A i \in 1..Len(rows) : rows'[i] = rows[i]
       /\ \A i \in 1..Len(rows') : \A j \in 1..Len(rows') :
            i # j => rows'[i].id # rows'[j].id
       /\ \A i \in (Len(rows) + 1)..Len(rows') : rows'[i].id >= nextId
       /\ \A i \in 1..Len(rows') : rows'[i].id < nextId'
       /\ nextId' >= nextId]_vars

\* two rows stored by two inserts, and the process restarted since
C4_Witness ==
    /\ Len(rows) = 2
    /\ rows[1].id # rows[2].id
    /\ call.op = "restart"

(* ------------------------------- C5 ------------------------------------ *)
\* C5: init_db is idempotent: called when the table exists (a second call,
\* or a call in a new process on a table that holds rows) it raises no
\* error and leaves the table, its rows and its id sequence unchanged.
C5_InitDbIdempotent ==
    [][(call'.op = "init_db" /\ tableExists) =>
         /\ call'.raised = ""
         /\ tableExists'
         /\ rows' = rows
         /\ nextId' = nextId
         /\ (call.op = "init_db" => data_cache' = data_cache
                                    /\ resource_cache' = resource_cache)]_vars

\* init_db has been called on a table that holds rows
C5_Witness ==
    /\ call.op = "init_db"
    /\ Len(rows) >= 1
    /\ tableExists

(* ------------------------------- C6 ------------------------------------ *)
\* C6: the total of a type is the sum of the amounts of exactly the stored
\* transactions of that type (0 if there is none), and the net shown is
\* total(Income) - total(Expense).
C6_Totals ==
    call.op \in RunOps =>
      \A d \in transactions_df :
        /\ total(d, "Income") = SumIdx(rows, OfType(rows, "Income"))
        /\ total(d, "Expense") = SumIdx(rows, OfType(rows, "Expense"))
        /\ \A t \in {"Income", "Expense"} : OfType(rows, t) = {} => total(d, t) = 0
        /\ view.branch # "no_transactions" =>
             /\ view.total_income = {SumIdx(rows, OfType(rows, "Income"))}
             /\ view.total_expenses = {SumIdx(rows, OfType(rows, "Expense"))}
             /\ view.net_savings = {SumIdx(rows, OfType(rows, "Income"))
                                    - SumIdx(rows, OfType(rows, "Expense"))}

\* a run that shows an income of 20.00, expenses of 5.00 and a net of 15.00
C6_Witness ==
    /\ call.op \in RunOps
    /\ view.total_income = {2000}
    /\ view.total_expenses = {500}
    /\ view.net_savings = {1500}

(* ------------------------------- C7 ------------------------------------ *)
\* C7: with no stored transaction a run raises no error, takes the "no
\* transactions yet" branch without computing any aggregate, and the
\* totals and both groupings of the empty result are 0 and empty.
C7_EmptyStore ==
    (call.op \in RunOps /\ rows = <<>>) =>
      /\ call.raised = ""
      /\ view = [NoView EXCEPT !.branch = "no_transactions"]
      /\ transactions_df = {<<>>}
      /\ \A d \in transactions_df :
           /\ total(d, "Income") = 0
           /\ total(d, "Expense") = 0
           /\ total(d, "Income") - total(d, "Expense") = 0
           /\ DOMAIN fig_pie(filter_type(d, "Expense")) = {}
           /\ expenses_by_day(filter_type(d, "Expense")) = <<>>

\* a run on the empty table
C7_Witness ==
    /\ call.op = "rerun"
    /\ tableExists
    /\ rows = <<>>
    /\ view.branch = "no_transactions"

(* ------------------------------- C8 ------------------------------------ *)
\* C8: expenses_by_day is sorted ascending by date, has exactly one entry
\* per calendar date that occurs among the Expense transactions, each with
\* the sum of the Expense amounts of that date; Income transactions
\* contribute to no entry.
C8_ExpensesByDay ==
    call.op \in RunOps =>
      \A d \in transactions_df :
        LET e == expenses_by_day(filter_type(d, "Expense"))
            X == OfType(rows, "Expense")
        IN /\ \A i \in 1..Len(e) : \A j \in 1..Len(e) : i < j => e[i].date < e[j].date
           /\ {e[i].date : i \in 1..Len(e)} = {rows[i].date : i \in X}
           /\ \A i \in 1..Len(e) :
                e[i].amount = SumIdx(rows, {k \in X : rows[k].date = e[i].date})
           /\ view.branch = "charts" => view.expenses_by_day = {e}

\* two expenses, entered for day 2 first and for day 1 second
C8_Witness ==
    /\ call.op \in RunOps
    /\ Len(rows) = 2
    /\ rows[1].type = "Expense" /\ rows[2].type = "Expense"
    /\ rows[1].date = 2 /\ rows[2].date = 1
    /\ view.expenses_by_day =
         {<<[date |-> 1, amount |-> rows[2].amount],
            [date |-> 2, amount |-> rows[1].amount]>>}

(* ------------------------------- C9 ------------------------------------ *)
\* C9: the category breakdown has exactly the categories that occur among
\* the Expense transactions as keys, each with the sum of the Expense
\* amounts of that category; Income transactions contribute to no key.
C9_ExpensesByCategory ==
    call.op \in RunOps =>
      \A d \in transactions_df :
        LET p == fig_pie(filter_type(d, "Expense"))
            X == OfType(rows, "Expense")
        IN /\ DOMAIN p = {rows[i].category : i \in X}
           /\ \A c \in DOMAIN p :
                p[c] = SumIdx(rows, {k \in X : rows[k].category = c})
           /\ view.branch = "charts" => view.fig_pie = {p}

\* Food 20.00 and Food 5.00 shown as Food 25.00
C9_Witness ==
    /\ call.op \in RunOps
    /\ Len(rows) = 2
    /\ view.branch = "charts"
    /\ {rows[1].amount, rows[2].amount} = {2000, 500}
    /\ \E p \in view.fig_pie : DOMAIN p = {"Food"} /\ p["Food"] = 2500

(* ------------------------------- C10 ----------------------------------- *)
\* C10: get_all_transactions returns every stored transaction and no other,
\* ordered by date descending.
C10_ListAll ==
    call.op \in ReadOps =>
      \A d \in transactions_df :
        /\ SameRecords(d, rows)
        /\ \A i \in 1..Len(d) : i < Len(d) => d[i].date >= d[i + 1].date

\* a read of two rows that were inserted in ascending order of date
C10_Witness ==
    /\ call.op = "get_all_transactions"
    /\ Len(rows) = 2
    /\ rows[1].date < rows[2].date
    /\ transactions_df # {}

====
